---- MODULE Spec2Model ----
(***************************************************************************)
(* JobRadar: the job scheduler (recruit/scheduler.py), its matcher         *)
(* (recruit/matcher.py) and the collaborators it calls.                    *)
(*                                                                         *)
(* Text is a sequence of characters (one atom per character), so that     *)
(* splitting, parsing, formatting and concatenation are computed.          *)
(* Instants are seconds on the Asia/Seoul clock; a similarity is a         *)
(* non-negative rational [n, d].                                           *)
(***************************************************************************)
EXTENDS Integers, Sequences, FiniteSets, TLC

(***************************************************************************)
(* Bounds of the exploration                                               *)
(***************************************************************************)
\* clock advances (of Step seconds each) explored in one behaviour
MaxSteps == 2
\* check cycles explored in one behaviour
MaxCycles == 2
\* process restarts explored in one behaviour
MaxRestarts == 1
\* longest text given to calculate_similarity
MaxTextLen == 3
\* longest keyword given to calculate_similarity
MaxKeywordLen == 2
\* longest title of a posting given to match; its detail is one shorter
MaxTitleLen == 2
\* longest list given to filter_jobs
MaxJobs == 3

(***************************************************************************)
(* Python built-ins on text                                                *)
(***************************************************************************)
Digits == <<"0", "1", "2", "3", "4", "5", "6", "7", "8", "9">>

IsDigit(c) == \E i \in 1..10 : Digits[i] = c

DigitVal(c) == (CHOOSE i \in 1..10 : Digits[i] = c) - 1

Max(a, b) == IF a >= b THEN a ELSE b

\* s[i:j] with 1-based inclusive ends
Slice(s, i, j) == [k \in 1..Max(0, j - i + 1) |-> s[i + k - 1]]

\* str.lower() on the letters the model uses
LowerChar(c) ==
    CASE c = "T" -> "t"
      [] c = "A" -> "a"
      [] c = "B" -> "b"
      [] c = "Z" -> "z"
      [] OTHER -> c

Lower(s) == [i \in 1..Len(s) |-> LowerChar(s[i])]

\* needle in haystack (substring test; the empty needle is in every text)
Contains(hay, needle) ==
    \E i \in 1..(Len(hay) - Len(needle) + 1) :
        Slice(hay, i, i + Len(needle) - 1) = needle

\* str.split(sep): the pieces between occurrences of the separator
RECURSIVE SplitOn(_, _)
SplitOn(s, sep) ==
    IF \A i \in 1..Len(s) : s[i] # sep
    THEN <<s>>
    ELSE LET i == CHOOSE k \in 1..Len(s) :
                      s[k] = sep /\ \A m \in 1..(k - 1) : s[m] # sep
         IN <<Slice(s, 1, i - 1)>> \o SplitOn(Slice(s, i + 1, Len(s)), sep)

\* str.split(): the non-empty runs between blanks
Words(s) == SelectSeq(SplitOn(s, " "), LAMBDA w : w # <<>>)

\* str.replace(' ', '')
NoSpaces(s) == SelectSeq(s, LAMBDA c : c # " ")

SeqToSet(s) == {s[i] : i \in 1..Len(s)}

\* int(text) for an unsigned decimal numeral
IsNumeral(s) == Len(s) > 0 /\ \A i \in 1..Len(s) : IsDigit(s[i])

RECURSIVE IntOf(_)
IntOf(s) ==
    IF Len(s) = 0 THEN 0
    ELSE 10 * IntOf(Slice(s, 1, Len(s) - 1)) + DigitVal(s[Len(s)])

\* the Hangul syllables (U+AC00..U+D7A3) of the model's alphabet, romanised
HangulChars == {"baek", "en", "deu", "peu", "ro", "teu", "gae", "bal", "ja"}

(***************************************************************************)
(* Similarities as rationals                                               *)
(***************************************************************************)
Frac(n, d) == [n |-> n, d |-> d]

FLess(x, y) == x.n * y.d < y.n * x.d

FLeq(x, y) == x.n * y.d <= y.n * x.d

FMax(x, y) == IF FLess(x, y) THEN y ELSE x

FMul(x, y) == Frac(x.n * y.n, x.d * y.d)

Zero == Frac(0, 1)

One == Frac(1, 1)

(***************************************************************************)
(* difflib.SequenceMatcher(None, a, b).ratio()                             *)
(***************************************************************************)
\* length of the common run of a[i..ahi] and b[j..bhi]
RECURSIVE RunLen(_, _, _, _, _, _)
RunLen(a, b, i, j, ahi, bhi) ==
    IF i > ahi \/ j > bhi \/ a[i] # b[j] THEN 0
    ELSE 1 + RunLen(a, b, i + 1, j + 1, ahi, bhi)

\* find_longest_match: the longest block, earliest in a, then earliest in b
LongestMatch(a, b, alo, ahi, blo, bhi) ==
    LET cand == {<<i, j>> : i \in alo..ahi, j \in blo..bhi}
        len(p) == RunLen(a, b, p[1], p[2], ahi, bhi)
        best == CHOOSE p \in cand :
                    \A q \in cand :
                        \/ len(p) > len(q)
                        \/ /\ len(p) = len(q)
                           /\ \/ p[1] < q[1]
                              \/ p[1] = q[1] /\ p[2] <= q[2]
    IN IF cand = {} THEN <<alo, blo, 0>> ELSE <<best[1], best[2], len(best)>>

\* get_matching_blocks: total size of the blocks found left and right
RECURSIVE MatchCount(_, _, _, _, _, _)
MatchCount(a, b, alo, ahi, blo, bhi) ==
    LET m == LongestMatch(a, b, alo, ahi, blo, bhi)
    IN IF m[3] = 0 THEN 0
       ELSE m[3] + MatchCount(a, b, alo, m[1] - 1, blo, m[2] - 1)
                 + MatchCount(a, b, m[1] + m[3], ahi, m[2] + m[3], bhi)

Ratio(a, b) ==
    IF Len(a) + Len(b) = 0 THEN One
    ELSE Frac(2 * MatchCount(a, b, 1, Len(a), 1, Len(b)), Len(a) + Len(b))

(***************************************************************************)
(* recruit/matcher.py                                                      *)
(***************************************************************************)
_is_korean(text) == \E i \in 1..Len(text) : text[i] \in HangulChars

\* the Hangul branch of calculate_similarity: <<TRUE, value>> when it
\* returns, <<FALSE, _>> when control falls through to the general scoring
KoreanScore(text_lower, keyword_lower) ==
    LET keyword_words == Words(keyword_lower)
        text_no_spaces == NoSpaces(text_lower)
        keyword_no_spaces == NoSpaces(keyword_lower)
        text_words == SeqToSet(Words(text_lower))
        keyword_words_set == SeqToSet(keyword_words)
        common_words == text_words \cap keyword_words_set
        words_found ==
            Cardinality({i \in 1..Len(keyword_words) :
                \/ Contains(text_lower, keyword_words[i])
                \/ Contains(text_no_spaces, NoSpaces(keyword_words[i]))})
        word_match_ratio ==
            Frac(Cardinality(common_words), Cardinality(keyword_words_set))
    IN IF keyword_words = <<>> THEN <<FALSE, Zero>>
       ELSE IF Cardinality(common_words) = Cardinality(keyword_words_set)
            THEN <<TRUE, One>>
       ELSE IF Contains(text_no_spaces, keyword_no_spaces)
            THEN <<TRUE, Frac(9, 10)>>
       ELSE IF words_found = Len(keyword_words)
            THEN <<TRUE, FMax(Frac(7, 10), word_match_ratio)>>
       ELSE <<FALSE, Zero>>

\* faulty variant: the reduction is left out
Undampened(similarity) == similarity

\* "similarity *= 0.3"
Dampened(similarity) == FMul(similarity, Frac(3, 10))

\* faulty variant: the sequence ratio alone, no exact-match shortcut
calculate_similarityRatio(text, keyword) == Ratio(Lower(text), Lower(keyword))

calculate_similarity(text, keyword) ==
    LET text_lower == Lower(text)
        keyword_lower == Lower(keyword)
        is_korean_keyword == _is_korean(keyword_lower)
        korean == KoreanScore(text_lower, keyword_lower)
        text_words == SeqToSet(Words(text_lower))
        keyword_words == SeqToSet(Words(keyword_lower))
        sequence == Ratio(text_lower, keyword_lower)
        similarity ==
            IF keyword_words # {}
            THEN FMax(sequence,
                      FMul(Frac(Cardinality(text_words \cap keyword_words),
                                Cardinality(keyword_words)),
                           Frac(8, 10)))
            ELSE sequence
        keyword_words_list == Words(keyword_lower)
        words_found ==
            Cardinality({i \in 1..Len(keyword_words_list) :
                Contains(text_lower, keyword_words_list[i])})
    IN IF Contains(text_lower, keyword_lower) THEN One
       ELSE IF is_korean_keyword /\ korean[1] THEN korean[2]
       ELSE IF is_korean_keyword /\ FLess(similarity, Frac(6, 10))
                                 /\ words_found = 0
            THEN Dampened(similarity)
       ELSE similarity

\* JobMatcher.__init__ lower-cases both keyword lists
MatcherKeywords(cfg) == [i \in 1..Len(cfg.job_keywords) |-> Lower(cfg.job_keywords[i])]

MatcherExclude(cfg) ==
    [i \in 1..Len(cfg.exclude_keywords) |-> Lower(cfg.exclude_keywords[i])]

\* faulty variant: the text is compared as it is written
should_excludeCased(cfg, text) ==
    \E i \in 1..Len(MatcherExclude(cfg)) : Contains(text, MatcherExclude(cfg)[i])

should_exclude(cfg, text) ==
    \E i \in 1..Len(MatcherExclude(cfg)) :
        Contains(Lower(text), MatcherExclude(cfg)[i])

\* faulty variant: a later keyword with the same similarity takes over
BetterOrEqual(prev, similarity, keyword) ==
    IF FLeq(prev[1], similarity) THEN <<similarity, keyword>> ELSE prev

\* if similarity > max_similarity: the running <<max_similarity, matched_keyword>>
Better(prev, similarity, keyword) ==
    IF FLess(prev[1], similarity) THEN <<similarity, keyword>> ELSE prev

\* faulty variant: the title counts double
WeightedDouble(title_sim, detail_sim) == FMax(FMul(title_sim, Frac(2, 1)), detail_sim)

\* similarity = max(title_sim * 1.5, detail_sim)
Weighted(title_sim, detail_sim) == FMax(FMul(title_sim, Frac(3, 2)), detail_sim)

\* the loop of match over the first k keywords: <<max_similarity, matched_keyword>>
RECURSIVE MatchLoop(_, _, _)
MatchLoop(cfg, job, k) ==
    IF k = 0 THEN <<Zero, <<>>>>
    ELSE Better(MatchLoop(cfg, job, k - 1),
                Weighted(calculate_similarity(job.title, MatcherKeywords(cfg)[k]),
                         calculate_similarity(job.detail, MatcherKeywords(cfg)[k])),
                MatcherKeywords(cfg)[k])

\* is_matched = max_similarity >= self.similarity_threshold
Verdict(similarity_threshold, r) == <<FLeq(similarity_threshold, r[1]), r[1], r[2]>>

\* match(job): <<is_matched, max_similarity, matched_keyword>>
match(cfg, job) ==
    IF should_exclude(cfg, job.title \o <<" ">> \o job.detail)
    THEN <<FALSE, Zero, <<>>>>
    ELSE Verdict(cfg.similarity_threshold, MatchLoop(cfg, job, Len(cfg.job_keywords)))

\* faulty variant: a posting goes behind those of equal similarity
RECURSIVE SortUnstable(_)
SortUnstable(jobs) ==
    IF Len(jobs) <= 1 THEN jobs
    ELSE LET rest == SortUnstable(Tail(jobs))
             h == Head(jobs)
             behind == SelectSeq(rest, LAMBDA j : FLeq(h.similarity, j.similarity))
             ahead == SelectSeq(rest, LAMBDA j : FLess(j.similarity, h.similarity))
         IN behind \o <<h>> \o ahead

\* list.sort(key=similarity, reverse=True): stable, equal keys keep their order
RECURSIVE SortBySimilarity(_)
SortBySimilarity(jobs) ==
    IF Len(jobs) <= 1 THEN jobs
    ELSE LET rest == SortBySimilarity(Tail(jobs))
             h == Head(jobs)
             \* h goes before the first element that is not greater than it
             pos == IF \E i \in 1..Len(rest) : ~FLess(h.similarity, rest[i].similarity)
                    THEN CHOOSE i \in 1..Len(rest) :
                             /\ ~FLess(h.similarity, rest[i].similarity)
                             /\ \A m \in 1..(i - 1) :
                                    FLess(h.similarity, rest[m].similarity)
                    ELSE Len(rest) + 1
         IN SubSeq(rest, 1, pos - 1) \o <<h>> \o SubSeq(rest, pos, Len(rest))

\* a matched posting is appended with its similarity and matched keyword
Annotated(job, m) ==
    IF m[1] THEN <<[job EXCEPT !.similarity = m[2], !.matched_keyword = m[3]]>>
    ELSE <<>>

RECURSIVE MatchedOf(_, _)
MatchedOf(cfg, jobs) ==
    IF jobs = <<>> THEN <<>>
    ELSE Annotated(Head(jobs), match(cfg, Head(jobs))) \o MatchedOf(cfg, Tail(jobs))

filter_jobs(cfg, jobs) == SortBySimilarity(MatchedOf(cfg, jobs))

(***************************************************************************)
(* Clock, HH:MM text and the time window (recruit/scheduler.py)            *)
(***************************************************************************)
SecondsPerMinute == 60

SecondsPerHour == 60 * SecondsPerMinute

DaySeconds == 24 * SecondsPerHour

\* the tick loop's one-second sleeps, taken a minute at a time
Step == SecondsPerMinute

Clock(h, m, sec) == h * SecondsPerHour + m * SecondsPerMinute + sec

\* datetime.time(): the time of day of an instant
TimeOfDay(t) == t % DaySeconds

HourOf(t) == TimeOfDay(t) \div SecondsPerHour

MinuteOf(t) == (TimeOfDay(t) % SecondsPerHour) \div SecondsPerMinute

TwoDigits(k) == <<Digits[(k \div 10) + 1], Digits[(k % 10) + 1]>>

\* current_time.strftime('%H:%M')
HHMM(t) == TwoDigits(HourOf(t)) \o <<":">> \o TwoDigits(MinuteOf(t))

\* _parse_time: hour, minute = map(int, time_str.split(':')); dt_time(hour, minute)
\* ok is FALSE where the code raises ValueError
_parse_time(time_str) ==
    LET parts == SplitOn(time_str, ":")
        wellformed == /\ Len(parts) = 2
                      /\ IsNumeral(parts[1])
                      /\ IsNumeral(parts[2])
                      /\ IntOf(parts[1]) <= 23
                      /\ IntOf(parts[2]) <= 59
    IN IF wellformed
       THEN [ok |-> TRUE, t |-> Clock(IntOf(parts[1]), IntOf(parts[2]), 0)]
       ELSE [ok |-> FALSE, t |-> 0]

\* faulty variant: the overnight branch leaves the end of the window out
_is_within_time_rangeLt(current_time, start_time, end_time) ==
    IF start_time <= end_time
    THEN start_time <= current_time /\ current_time <= end_time
    ELSE current_time >= start_time \/ current_time < end_time

\* faulty variant: the same-day branch leaves the end of the window out
_is_within_time_rangeOpen(current_time, start_time, end_time) ==
    IF start_time <= end_time
    THEN start_time <= current_time /\ current_time < end_time
    ELSE current_time >= start_time \/ current_time <= end_time

\* _is_within_time_range on times of day
_is_within_time_range(current_time, start_time, end_time) ==
    IF start_time <= end_time
    THEN start_time <= current_time /\ current_time <= end_time
    ELSE current_time >= start_time \/ current_time <= end_time

HasTimes(cfg) == cfg.schedule_times # <<>>

\* "if self.start_time and self.end_time": None and '' are both false
HasWindow(cfg) == cfg.start_time # <<>> /\ cfg.end_time # <<>>

\* _should_check_now at instant t: "raise", "yes" or "no"
_should_check_now(cfg, t) ==
    IF HasTimes(cfg)
    THEN IF HHMM(t) \in SeqToSet(cfg.schedule_times) THEN "yes" ELSE "no"
    ELSE IF HasWindow(cfg)
    THEN LET start == _parse_time(cfg.start_time)
             end == _parse_time(cfg.end_time)
         IN IF ~start.ok \/ ~end.ok THEN "raise"
            ELSE IF _is_within_time_range(TimeOfDay(t), start.t, end.t)
                 THEN "yes" ELSE "no"
    ELSE "yes"

\* the interval gate of _check_jobs_with_time_validation: last is the recorded
\* _last_check_time, or -1 when the attribute is unset or None
IntervalElapsed(cfg, t, last) ==
    ~HasWindow(cfg) \/ last = -1 \/ (t - last) >= cfg.interval_minutes * SecondsPerMinute

_last_check_time_after(cfg, t, last) == IF HasWindow(cfg) THEN t ELSE last

(***************************************************************************)
(* The schedule library as _schedule_jobs uses it                          *)
(***************************************************************************)
\* the host's local clock, which the schedule library reads
HostTime(cfg, t) == t + cfg.host_offset

\* every().day.at(time_str): the format the library accepts, HH:MM or HH:MM:SS
AtValid(time_str) ==
    LET parts == SplitOn(time_str, ":")
        two(x, hi) == Len(x) = 2 /\ IsNumeral(x) /\ DigitVal(x[1]) <= hi
    IN /\ Len(parts) \in {2, 3}
       /\ two(parts[1], 2) /\ IntOf(parts[1]) <= 23
       /\ \A i \in 2..Len(parts) : two(parts[i], 5)

AtSeconds(time_str) ==
    LET parts == SplitOn(time_str, ":")
    IN Clock(IntOf(parts[1]), IntOf(parts[2]),
             IF Len(parts) = 3 THEN IntOf(parts[3]) ELSE 0)

\* Job._schedule_next_run read at host instant h
NextRun(job, h) ==
    IF job.unit = "days"
    THEN LET today == h - TimeOfDay(h) + job.at
         IN IF job.at > TimeOfDay(h) THEN today ELSE today + DaySeconds
    ELSE h + job.interval * SecondsPerMinute

DailyJob(time_str, h) ==
    LET j == [unit |-> "days", interval |-> 1, at |-> AtSeconds(time_str),
              func |-> "validated", next_run |-> 0]
    IN [j EXCEPT !.next_run = NextRun(j, h)]

MinutesJob(n, func, h) ==
    [unit |-> "minutes", interval |-> n, at |-> -1, func |-> func,
     next_run |-> h + n * SecondsPerMinute]

\* _schedule_jobs at host instant h: ok is FALSE where at() raises
_schedule_jobs(cfg, h) ==
    IF HasTimes(cfg)
    THEN IF \A i \in 1..Len(cfg.schedule_times) : AtValid(cfg.schedule_times[i])
         THEN [ok |-> TRUE,
               jobs |-> [i \in 1..Len(cfg.schedule_times) |->
                            DailyJob(cfg.schedule_times[i], h)]]
         ELSE [ok |-> FALSE, jobs |-> <<>>]
    ELSE IF HasWindow(cfg)
    THEN [ok |-> TRUE, jobs |-> <<MinutesJob(1, "validated", h)>>]
    ELSE [ok |-> TRUE, jobs |-> <<MinutesJob(cfg.interval_minutes, "check_jobs", h)>>]

\* run_pending: the due job that runs first (earliest next_run, then registration order)
Due(js, h) == {i \in 1..Len(js) : h >= js[i].next_run}

FirstDue(js, h) ==
    CHOOSE i \in Due(js, h) :
        \A k \in Due(js, h) :
            \/ js[i].next_run < js[k].next_run
            \/ js[i].next_run = js[k].next_run /\ i <= k

(***************************************************************************)
(* Postings, the fetch collaborator and the configurations explored        *)
(***************************************************************************)
S1 == <<"s", "1">>

S2 == <<"s", "2">>

Unknown == <<"u">>

Posting(title, link, detail, source) ==
    [title |-> title, company |-> <<"c">>, link |-> link, detail |-> detail,
     source |-> source, similarity |-> Zero, matched_keyword |-> <<>>]

\* what one site can list: titles with and without the keywords, links that
\* repeat, an empty link, an excluded word, text with the separator in it
JobA(src) == Posting(<<"t">>, <<"x", "_", "y">>, <<>>, src)

JobB(src) == Posting(<<"y", "_", "t">>, <<"x">>, <<>>, src)

JobC(src) == Posting(<<"q">>, <<"x">>, <<"t">>, src)

JobD(src) == Posting(<<"t", "z">>, <<"w">>, <<>>, src)

JobE(src) == Posting(<<"T">>, <<>>, <<>>, src)

JobF(src) == Posting(<<"a">>, <<"v">>, <<>>, src)

JobG(src) == Posting(<<"q">>, <<"k">>, <<>>, src)

Raised == [raised |-> TRUE, jobs |-> <<>>]

Returned(jobs) == [raised |-> FALSE, jobs |-> jobs]

\* parser.parse(keyword) of a site: it raises, or returns a list of postings
FetchOutcomes(site, keyword) ==
    {Raised} \cup
    (IF site = S1 /\ keyword = <<"t">>
       THEN {Returned(<<JobA(S1), JobE(S1)>>),
             Returned(<<JobC(S1), JobG(S1), JobD(S1)>>)}
     ELSE IF site = S1
       THEN {Returned(<<JobB(S1), JobF(S1)>>)}
     ELSE IF keyword = <<"t">>
       THEN {Returned(<<JobA(S2), JobE(S2)>>), Returned(<<JobC(S2), JobA(S2)>>)}
     ELSE {Returned(<<JobF(S2), JobC(S2)>>)})

HM(a, b, c, d) == <<a, b, ":", c, d>>

KST == 0

UTC == 0 - 9 * SecondsPerHour

Config(times, start, end, interval, offset, sites, sites_config, keywords) ==
    [schedule_times |-> times, start_time |-> start, end_time |-> end,
     interval_minutes |-> interval, host_offset |-> offset,
     sites |-> sites, sites_config |-> sites_config,
     job_keywords |-> keywords, exclude_keywords |-> <<<<"z">>>>,
     similarity_threshold |-> Frac(3, 10)]

\* one site, one keyword
Thin(times, start, end, interval, offset) ==
    Config(times, start, end, interval, offset, <<S2>>, <<S2>>, <<<<"t">>>>)

\* two configured sites around an unconfigured one, two keywords
Rich(times, start, end, interval, offset) ==
    Config(times, start, end, interval, offset,
           <<S1, Unknown, S2>>, <<S1, S2>>, <<<<"t">>, <<"A", "b">>>>)

TimesOnly == Thin(<<HM("0", "9", "0", "0"), HM("1", "8", "0", "0")>>, <<>>, <<>>, 60, KST)

TimesAndWindow ==
    Thin(<<HM("0", "9", "0", "0"), HM("0", "9", "0", "1")>>,
         HM("0", "0", "0", "0"), HM("2", "3", "5", "9"), 60, KST)

TimesMalformed == Thin(<<HM("0", "9", "0", "0"), <<"9", "h">>>>, <<>>, <<>>, 60, KST)

TimesBadWindow ==
    Thin(<<HM("0", "9", "0", "0")>>, HM("2", "5", "0", "0"), HM("0", "6", "0", "0"), 60, KST)

TimesUTCHost == Thin(<<HM("0", "9", "0", "0")>>, <<>>, <<>>, 60, UTC)

Overnight == Thin(<<>>, HM("2", "2", "0", "0"), HM("0", "6", "0", "0"), 2, KST)

Daytime == Thin(<<>>, HM("0", "9", "0", "0"), HM("1", "8", "0", "0"), 1, KST)

WindowMalformed == Thin(<<>>, HM("2", "5", "0", "0"), HM("0", "6", "0", "0"), 2, KST)

BareInterval == Rich(<<>>, <<>>, <<>>, 60, KST)

BareIntervalThin == Thin(<<>>, <<>>, <<>>, 1, KST)

\* an instant of the day the process is started on
At(h, m, sec) == DaySeconds + Clock(h, m, sec)

\* the configurations explored, each with the instants the process starts at
Scenarios ==
    {<<TimesOnly, At(8, 59, 0)>>, <<TimesOnly, At(9, 0, 0)>>,
     <<TimesOnly, At(9, 1, 0)>>,
     <<TimesAndWindow, At(8, 59, 30)>>,
     <<TimesMalformed, At(8, 59, 0)>>, <<TimesMalformed, At(9, 0, 0)>>,
     <<TimesBadWindow, At(8, 59, 30)>>,
     <<TimesUTCHost, At(17, 59, 30)>>, <<TimesUTCHost, At(8, 59, 30)>>,
     <<Overnight, At(22, 59, 0)>>, <<Overnight, At(5, 59, 0)>>,
     <<Overnight, At(5, 59, 30)>>, <<Overnight, At(11, 59, 0)>>,
     <<Daytime, At(17, 59, 0)>>, <<Daytime, At(8, 59, 30)>>,
     <<WindowMalformed, At(23, 0, 0)>>,
     <<BareInterval, At(10, 0, 0)>>, <<BareIntervalThin, At(10, 0, 0)>>}

(***************************************************************************)
(* The history store and the check_jobs pipeline                           *)
(***************************************************************************)
\* _get_job_id: f"{source}_{link}_{title}"
_get_job_id(job) == job.source \o <<"_">> \o job.link \o <<"_">> \o job.title

\* the identity of a posting: its source, link and title
Identity(job) == <<job.source, job.link, job.title>>

Identities(js) == {Identity(js[i]) : i \in 1..Len(js)}

NoFile == [exists |-> FALSE, readable |-> FALSE, seen_job_ids |-> {}]

\* faulty variant: only the identifiers of the new postings are written
SavedOnlyNew(seen, new_jobs) ==
    [exists |-> TRUE, readable |-> TRUE,
     seen_job_ids |-> {_get_job_id(new_jobs[i]) : i \in 1..Len(new_jobs)}]

\* _save_history: the file is overwritten with the whole set
Saved(seen, new_jobs) == [exists |-> TRUE, readable |-> TRUE, seen_job_ids |-> seen]

\* a write that fails after open() has truncated the file
Truncated == [exists |-> TRUE, readable |-> FALSE, seen_job_ids |-> {}]

\* what _save_history can leave behind: the new content, the old file (open
\* failed) or a truncated file (the write failed); the error is only logged
SaveOutcomes(file, seen, new_jobs) == {Saved(seen, new_jobs), file, Truncated}

\* _load_history on a file that could be read and parsed
_load_history(file) == IF file.exists /\ file.readable THEN file.seen_job_ids ELSE {}

\* get_parser: a parser for a site named in sites_config, none otherwise
get_parser(cfg, site) ==
    \E i \in 1..Len(cfg.sites_config) : Lower(cfg.sites_config[i]) = Lower(site)

\* the (site, keyword) pairs check_jobs fetches, in its loop order
RECURSIVE PairsFrom(_, _)
PairsFrom(cfg, k) ==
    IF k > Len(cfg.sites) THEN <<>>
    ELSE (IF get_parser(cfg, cfg.sites[k])
          THEN [i \in 1..Len(cfg.job_keywords) |->
                    [site |-> cfg.sites[k], keyword |-> cfg.job_keywords[i]]]
          ELSE <<>>) \o PairsFrom(cfg, k + 1)

Pairs(cfg) == PairsFrom(cfg, 1)

\* faulty variant: a fetch that raises empties the pool
PoolAfterAbort(pool, outcome) ==
    IF outcome.raised THEN <<>> ELSE pool \o outcome.jobs

\* time.sleep(1) is the last statement of the try block: the seconds slept
\* after a fetch, none when parse raised
Slept(outcome) == IF outcome.raised THEN 0 ELSE 1

\* the try/except round one parse: the pool after the fetch
PoolAfter(pool, outcome) ==
    IF outcome.raised THEN pool ELSE pool \o outcome.jobs

\* faulty variant: a fetch that raises ends the loops
NextPairAbort(cfg, idx, outcome) ==
    IF outcome.raised THEN Len(Pairs(cfg)) + 1 ELSE idx + 1

\* ... and the pair the loop goes on with: the next one, raised or not
NextPair(cfg, idx, outcome) == idx + 1

\* "Remove duplicates (same link)": the loop over all_jobs
RECURSIVE UniqueLoop(_, _, _)
UniqueLoop(jobs, seen_links, unique_jobs) ==
    IF jobs = <<>> THEN unique_jobs
    ELSE LET link == Head(jobs).link
         IN IF link # <<>> /\ link \notin seen_links
            THEN UniqueLoop(Tail(jobs), seen_links \cup {link},
                            Append(unique_jobs, Head(jobs)))
            ELSE UniqueLoop(Tail(jobs), seen_links, unique_jobs)

\* faulty variant: the last posting with a link is kept, not the first
RECURSIVE UniqueLast(_)
UniqueLast(jobs) ==
    IF jobs = <<>> THEN <<>>
    ELSE LET link == Head(jobs).link
             later == \E i \in 2..Len(jobs) : jobs[i].link = link
         IN (IF link # <<>> /\ ~later THEN <<Head(jobs)>> ELSE <<>>)
            \o UniqueLast(Tail(jobs))

UniqueJobs(jobs) == UniqueLoop(jobs, {}, <<>>)

\* _filter_new_jobs: the loop, returning the new postings and the grown set
\* faulty variant: the history is written after every cycle
SaveAlways(new_jobs) == TRUE

\* "if new_jobs: self._save_history()"
SaveNeeded(new_jobs) == new_jobs # <<>>

RECURSIVE FilterLoop(_, _, _)
FilterLoop(jobs, seen, new_jobs) ==
    IF jobs = <<>> THEN [new_jobs |-> new_jobs, seen |-> seen]
    ELSE LET job_id == _get_job_id(Head(jobs))
         IN IF job_id \notin seen
            THEN FilterLoop(Tail(jobs), seen \cup {job_id}, Append(new_jobs, Head(jobs)))
            ELSE FilterLoop(Tail(jobs), seen, new_jobs)

\* faulty variant: the set is rebuilt from the batch
_filter_new_jobsRebuilt(jobs, seen) ==
    [new_jobs |-> FilterLoop(jobs, seen, <<>>).new_jobs,
     seen |-> {_get_job_id(jobs[i]) : i \in 1..Len(jobs)}]

_filter_new_jobs(jobs, seen) == FilterLoop(jobs, seen, <<>>)

(***************************************************************************)
(* State                                                                   *)
(***************************************************************************)
VARIABLES
    config,           \* the configuration the process was started with
    now,              \* the instant, in seconds on the Asia/Seoul clock
    steps,            \* clock advances so far
    pc,               \* where the process is: "init", "fetching", "notify",
                      \* "cycle_done", "schedule", "loop", "failed", "stopped"
    origin,           \* who called check_jobs: "initial" (start) or "job"
    cur_job,          \* the scheduled job whose callback is running, or 0
    seen_jobs,        \* JobScheduler.seen_jobs
    history_file,     \* data/job_history.json
    last_check_time,  \* JobScheduler._last_check_time, -1 while unset
    jobs,             \* the jobs registered with the schedule library
    fetch_idx,        \* the (site, keyword) pair check_jobs fetches next
    all_jobs,         \* check_jobs: the pool
    unique_jobs,      \* check_jobs: the pool after the same-link pass
    new_jobs,         \* check_jobs: what _filter_new_jobs returned
    notify_calls,     \* the argument of each Notifier.notify call of the cycle
    cycles,           \* check cycles begun in the behaviour
    restarts,         \* process restarts in the behaviour
    run_cycles,       \* check cycles begun by the running process
    fetch_log,        \* history: outcome of every fetch of the cycle
    seen_at_start,    \* history: seen_jobs when the cycle began
    returned_new,     \* history: identities returned as new in earlier cycles
                      \*   of this process or of those whose file it loaded
    persisted,        \* history: the identities among them that the last
                      \*   successful write of the file covered
    cycle_start,      \* history: when the latest cycle of the process began
    prev_cycle_start, \* history: when the one before it began
    decision,         \* history: the latest _should_check_now evaluation
    saves,            \* history: the _save_history calls of the cycle, or the
                      \*   one of the finally clause once the process stopped
    unnotified,       \* history: the identifiers this process added to
                      \*   seen_jobs for postings it has not passed to notify
    probe             \* a call of the matcher on its own: arguments and result

vars == <<config, now, steps, pc, origin, cur_job, seen_jobs, history_file,
          last_check_time, jobs, fetch_idx, all_jobs, unique_jobs, new_jobs,
          notify_calls, cycles, restarts, run_cycles, fetch_log, seen_at_start,
          returned_new, persisted, cycle_start, prev_cycle_start, decision,
          saves, unnotified, probe>>

cycleVars == <<fetch_idx, all_jobs, unique_jobs, new_jobs, notify_calls,
               fetch_log, seen_at_start>>

storeVars == <<seen_jobs, history_file, returned_new, persisted>>

NoDecision == [kind |-> "none", at |-> -1, should |-> "no", ran |-> FALSE]

Decided(kind, t, should, ran) ==
    [kind |-> kind, at |-> t, should |-> should, ran |-> ran]

\* one call of _save_history: who called, the set it was to write, the file
\* it left, and whether the write went through
SaveCall(by, seen, file) ==
    [by |-> by, seen_job_ids |-> seen, file |-> file,
     written |-> file = Saved(seen, <<>>)]

\* no matcher call is being looked at
NoProbe ==
    [op |-> "none", done |-> FALSE, cfg |-> TimesOnly, jobs |-> <<>>,
     text |-> <<>>, keyword |-> <<>>, verdict |-> <<FALSE, Zero, <<>>>>,
     out |-> <<>>, score |-> Zero]

\* JobScheduler.__init__ of a fresh process, no history file on disk
Constructed ==
    /\ steps = 0
    /\ pc = "init"
    /\ origin = "none"
    /\ cur_job = 0
    /\ seen_jobs = {}
    /\ history_file = NoFile
    /\ last_check_time = -1
    /\ jobs = <<>>
    /\ fetch_idx = 0
    /\ all_jobs = <<>>
    /\ unique_jobs = <<>>
    /\ new_jobs = <<>>
    /\ notify_calls = <<>>
    /\ cycles = 0
    /\ restarts = 0
    /\ run_cycles = 0
    /\ fetch_log = <<>>
    /\ seen_at_start = {}
    /\ returned_new = {}
    /\ persisted = {}
    /\ cycle_start = -1
    /\ prev_cycle_start = -1
    /\ decision = NoDecision
    /\ saves = <<>>
    /\ unnotified = {}

Init ==
    /\ \E sc \in Scenarios : config = sc[1] /\ now = sc[2]
    /\ Constructed
    /\ probe = NoProbe

(***************************************************************************)
(* check_jobs                                                              *)
(***************************************************************************)
\* the cycles explored with a configuration: one less where a cycle fetches
\* several (site, keyword) pairs
CycleBudget(cfg) == IF Len(Pairs(cfg)) > 1 THEN MaxCycles - 1 ELSE MaxCycles

\* entry of check_jobs, called by who
BeginCycle(who, j) ==
    /\ cycles < CycleBudget(config)
    /\ pc' = "fetching"
    /\ origin' = who
    /\ cur_job' = j
    /\ fetch_idx' = 1
    /\ all_jobs' = <<>>
    /\ unique_jobs' = <<>>
    /\ new_jobs' = <<>>
    /\ notify_calls' = <<>>
    /\ fetch_log' = <<>>
    /\ saves' = <<>>
    /\ seen_at_start' = seen_jobs
    /\ cycles' = cycles + 1
    /\ run_cycles' = run_cycles + 1
    /\ prev_cycle_start' = cycle_start
    /\ cycle_start' = now

\* one turn of the keyword loop: parser.parse(keyword) returns or raises
FetchStep ==
    /\ pc = "fetching"
    /\ fetch_idx <= Len(Pairs(config))
    /\ \E outcome \in FetchOutcomes(Pairs(config)[fetch_idx].site,
                                    Pairs(config)[fetch_idx].keyword) :
        /\ all_jobs' = PoolAfter(all_jobs, outcome)
        /\ fetch_idx' = NextPair(config, fetch_idx, outcome)
        /\ fetch_log' = Append(fetch_log,
                               [pair |-> Pairs(config)[fetch_idx], outcome |-> outcome,
                                slept |-> Slept(outcome)])
    /\ UNCHANGED <<unnotified, probe, config, now, steps, pc, origin, cur_job, storeVars,
                   last_check_time, jobs, unique_jobs, new_jobs, notify_calls,
                   cycles, restarts, run_cycles, seen_at_start, cycle_start,
                   prev_cycle_start, decision, saves>>

\* after the loops: the same-link pass, the matcher, _filter_new_jobs and
\* the _save_history it calls when something is new
Process ==
    /\ pc = "fetching"
    /\ fetch_idx > Len(Pairs(config))
    /\ LET unique == UniqueJobs(all_jobs)
           matched_jobs == filter_jobs(config, unique)
           r == _filter_new_jobs(matched_jobs, seen_jobs)
           returned == returned_new \cup Identities(r.new_jobs)
       IN /\ unique_jobs' = unique
          /\ new_jobs' = r.new_jobs
          /\ seen_jobs' = r.seen
          /\ unnotified' = unnotified \cup (r.seen \ seen_jobs)
          /\ IF SaveNeeded(r.new_jobs)
             THEN \E f \in SaveOutcomes(history_file, r.seen, r.new_jobs) :
                     /\ history_file' = f
                     /\ persisted' = IF f = Saved(r.seen, r.new_jobs) THEN returned
                                     ELSE IF f = Truncated THEN {}
                                     ELSE persisted
                     /\ saves' = Append(saves, SaveCall("check_jobs", r.seen, f))
             ELSE UNCHANGED <<history_file, persisted, saves>>
    /\ pc' = "notify"
    /\ UNCHANGED <<probe, config, now, steps, origin, cur_job, last_check_time, jobs,
                   returned_new, fetch_idx, all_jobs, notify_calls, cycles, restarts,
                   run_cycles, fetch_log, seen_at_start, cycle_start,
                   prev_cycle_start, decision>>

\* faulty variant: the notifier is called with whatever the cycle found
NotifyAlways ==
    /\ pc = "notify"
    /\ notify_calls' = Append(notify_calls, new_jobs)
    /\ unnotified' = unnotified \ {_get_job_id(new_jobs[i]) : i \in 1..Len(new_jobs)}
    /\ pc' = "cycle_done"
    /\ UNCHANGED <<probe, config, now, steps, origin, cur_job, storeVars,
                   last_check_time, jobs, fetch_idx, all_jobs, unique_jobs,
                   new_jobs, cycles, restarts, run_cycles, fetch_log,
                   seen_at_start, cycle_start, prev_cycle_start, decision, saves>>

\* faulty variant: nothing is notified unless the history write went through
NotifyWritten ==
    /\ pc = "notify"
    /\ notify_calls' = IF new_jobs # <<>> /\ \A i \in 1..Len(saves) : saves[i].written
                       THEN Append(notify_calls, new_jobs)
                       ELSE notify_calls
    /\ unnotified' = unnotified \ {_get_job_id(new_jobs[i]) : i \in 1..Len(new_jobs)}
    /\ pc' = "cycle_done"
    /\ UNCHANGED <<probe, config, now, steps, origin, cur_job, storeVars,
                   last_check_time, jobs, fetch_idx, all_jobs, unique_jobs,
                   new_jobs, cycles, restarts, run_cycles, fetch_log,
                   seen_at_start, cycle_start, prev_cycle_start, decision, saves>>

\* "if new_jobs: self.notifier.notify(new_jobs)"
Notify ==
    /\ pc = "notify"
    /\ notify_calls' = IF new_jobs # <<>> THEN Append(notify_calls, new_jobs)
                       ELSE notify_calls
    /\ unnotified' = unnotified \ {_get_job_id(new_jobs[i]) : i \in 1..Len(new_jobs)}
    /\ pc' = "cycle_done"
    /\ UNCHANGED <<probe, config, now, steps, origin, cur_job, storeVars,
                   last_check_time, jobs, fetch_idx, all_jobs, unique_jobs,
                   new_jobs, cycles, restarts, run_cycles, fetch_log,
                   seen_at_start, cycle_start, prev_cycle_start, decision, saves>>

ClearCycle ==
    /\ fetch_idx' = 0
    /\ all_jobs' = <<>>
    /\ unique_jobs' = <<>>
    /\ new_jobs' = <<>>
    /\ notify_calls' = <<>>
    /\ fetch_log' = <<>>
    /\ seen_at_start' = {}

Reschedule(js, j, h) == [js EXCEPT ![j].next_run = NextRun(js[j], h)]

\* check_jobs returns, having taken d seconds: start goes on to
\* _schedule_jobs, a scheduled job is given its next run
EndCycle ==
    /\ pc = "cycle_done"
    /\ \E d \in {0, Step} :
        /\ d > 0 => steps < MaxSteps
        /\ now' = now + d
        /\ steps' = IF d > 0 THEN steps + 1 ELSE steps
        /\ IF origin = "initial"
           THEN pc' = "schedule" /\ jobs' = jobs
           ELSE /\ pc' = "loop"
                /\ jobs' = Reschedule(jobs, cur_job, HostTime(config, now + d))
    /\ origin' = "none"
    /\ cur_job' = 0
    /\ returned_new' = returned_new \cup Identities(new_jobs)
    /\ ClearCycle
    /\ saves' = <<>>
    /\ UNCHANGED <<unnotified, probe, config, seen_jobs, history_file, persisted, last_check_time,
                   cycles, restarts, run_cycles, cycle_start, prev_cycle_start,
                   decision>>

(***************************************************************************)
(* start, the tick loop and the scheduled callbacks                        *)
(***************************************************************************)
\* start: the first run, "only if within time range"
Start ==
    /\ pc = "init"
    /\ LET should == _should_check_now(config, now)
       IN \/ /\ should = "raise"
             /\ pc' = "failed"
             /\ decision' = Decided("start", now, should, FALSE)
             /\ UNCHANGED <<origin, cur_job, cycleVars, cycles, run_cycles,
                            cycle_start, prev_cycle_start, saves>>
          \/ /\ should = "no"
             /\ pc' = "schedule"
             /\ decision' = Decided("start", now, should, FALSE)
             /\ UNCHANGED <<origin, cur_job, cycleVars, cycles, run_cycles,
                            cycle_start, prev_cycle_start, saves>>
          \/ /\ should = "yes"
             /\ BeginCycle("initial", 0)
             /\ decision' = Decided("start", now, should, TRUE)
    /\ UNCHANGED <<unnotified, probe, config, now, steps, storeVars, last_check_time, jobs, restarts>>

\* start: _schedule_jobs, then into the loop; at() raises on a bad time string
ScheduleJobs ==
    /\ pc = "schedule"
    /\ LET r == _schedule_jobs(config, HostTime(config, now))
       IN IF r.ok
          THEN pc' = "loop" /\ jobs' = r.jobs
          ELSE pc' = "failed" /\ jobs' = jobs
    /\ UNCHANGED <<unnotified, probe, config, now, steps, origin, cur_job, storeVars,
                   last_check_time, cycleVars, cycles, restarts, run_cycles,
                   cycle_start, prev_cycle_start, decision, saves>>

\* the loop sleeps: nothing is pending, the clock moves on
Tick ==
    /\ pc = "loop"
    /\ Due(jobs, HostTime(config, now)) = {}
    /\ steps < MaxSteps
    /\ now' = now + Step
    /\ steps' = steps + 1
    /\ UNCHANGED <<unnotified, probe, config, pc, origin, cur_job, storeVars, last_check_time,
                   jobs, cycleVars, cycles, restarts, run_cycles, cycle_start,
                   prev_cycle_start, decision, saves>>

\* faulty variant: the wrapper goes on unless _should_check_now raised
ValidatedUnlessRaised(should, elapsed) == should # "raise" /\ elapsed

\* _check_jobs_with_time_validation reaches check_jobs: neither return was taken
Validated(should, elapsed) == should = "yes" /\ elapsed

\* run_pending runs a due job registered with _check_jobs_with_time_validation
ValidatedCallback ==
    /\ pc = "loop"
    /\ Due(jobs, HostTime(config, now)) # {}
    /\ LET j == FirstDue(jobs, HostTime(config, now))
           should == _should_check_now(config, now)
           run == Validated(should, IntervalElapsed(config, now, last_check_time))
       IN /\ jobs[j].func = "validated"
          /\ decision' = Decided("trigger", now, should, run)
          /\ IF run
             THEN /\ last_check_time' = _last_check_time_after(config, now, last_check_time)
                  /\ BeginCycle("job", j)
                  /\ jobs' = jobs
             ELSE /\ jobs' = Reschedule(jobs, j, HostTime(config, now))
                  /\ UNCHANGED <<pc, origin, cur_job, last_check_time, cycleVars,
                                 cycles, run_cycles, cycle_start, prev_cycle_start,
                                 saves>>
    /\ UNCHANGED <<unnotified, probe, config, now, steps, storeVars, restarts>>

\* run_pending runs a due job registered with check_jobs itself
IntervalCallback ==
    /\ pc = "loop"
    /\ Due(jobs, HostTime(config, now)) # {}
    /\ LET j == FirstDue(jobs, HostTime(config, now))
       IN /\ jobs[j].func = "check_jobs"
          /\ BeginCycle("job", j)
    /\ UNCHANGED <<unnotified, probe, config, now, steps, storeVars, last_check_time, jobs,
                   restarts, decision>>

\* faulty variant: only the idle loop is inside the try
InTryIdle == pc = "loop"

\* control is inside the try of start: in the loop, or in a job it runs
InTry == pc = "loop" \/ origin = "job"

\* KeyboardInterrupt: inside the try of start the finally clause saves the
\* history; before it (first run, _schedule_jobs) the process just ends
Interrupt ==
    /\ pc \in {"init", "fetching", "notify", "cycle_done", "schedule", "loop"}
    /\ pc' = "stopped"
    /\ IF InTry
       THEN \E f \in SaveOutcomes(history_file, seen_jobs, <<>>) :
               /\ history_file' = f
               /\ persisted' = IF f = Saved(seen_jobs, <<>>)
                               THEN returned_new \cup Identities(new_jobs)
                               ELSE IF f = Truncated THEN {}
                               ELSE persisted
               /\ saves' = <<SaveCall("finally", seen_jobs, f)>>
       ELSE saves' = <<>> /\ UNCHANGED <<history_file, persisted>>
    /\ origin' = "none"
    /\ cur_job' = 0
    /\ returned_new' = returned_new \cup Identities(new_jobs)
    /\ ClearCycle
    /\ UNCHANGED <<unnotified, probe, config, now, steps, seen_jobs, last_check_time,
                   jobs, cycles, restarts, run_cycles, cycle_start,
                   prev_cycle_start, decision>>

\* the program is started again: __init__ loads the history, unless the
\* read fails (logged, empty history)
Restart ==
    /\ pc \in {"stopped", "failed"}
    /\ restarts < MaxRestarts
    /\ restarts' = restarts + 1
    /\ \E read \in BOOLEAN :
        /\ seen_jobs' = IF read THEN _load_history(history_file) ELSE {}
        /\ returned_new' = IF read THEN persisted ELSE {}
    /\ pc' = "init"
    /\ last_check_time' = -1
    /\ jobs' = <<>>
    /\ run_cycles' = 0
    /\ cycle_start' = -1
    /\ prev_cycle_start' = -1
    /\ decision' = NoDecision
    /\ saves' = <<>>
    /\ unnotified' = {}
    /\ UNCHANGED <<probe, config, now, steps, origin, cur_job, history_file, persisted,
                   cycleVars, cycles>>

Next ==
    \/ Start
    \/ FetchStep
    \/ Process
    \/ Notify
    \/ EndCycle
    \/ ScheduleJobs
    \/ Tick
    \/ ValidatedCallback
    \/ IntervalCallback
    \/ Interrupt
    \/ Restart

Spec == Init /\ [][Next]_vars

(***************************************************************************)
(* The matcher called on its own (recruit/matcher.py)                      *)
(***************************************************************************)
\* every sequence over a set of elements, up to a length
RECURSIVE SeqsUpTo(_, _)
SeqsUpTo(elements, n) ==
    IF n = 0 THEN {<<>>}
    ELSE SeqsUpTo(elements, n - 1) \cup
         {Append(t, c) : t \in SeqsUpTo(elements, n - 1), c \in elements}

\* letters in both cases, the blank, a Hangul syllable
SimilarityAlphabet == {"t", "T", " ", "en"}

\* an include letter, an exclude letter in upper case, a Hangul syllable
TitleAlphabet == {"t", "Z", "en"}

\* the keyword and the title of test_no_match_different_keywords
FrontEnd == <<"peu", "ro", "teu", "en", "deu">>

BackEndDeveloper == <<"baek", "en", "deu", " ", "gae", "bal", "ja">>

\* JobMatcher(keywords, exclude_keywords, threshold)
Profile(keywords, exclude, threshold) ==
    [TimesOnly EXCEPT !.job_keywords = keywords, !.exclude_keywords = exclude,
                      !.similarity_threshold = threshold]

KeywordLists ==
    {<<>>, <<<<"t">>>>, <<<<"en">>, <<"T">>>>, <<<<"Z">>, <<"t">>, <<"t", "t">>>>}

ExcludeLists == {<<>>, <<<<"Z">>>>, <<<<"t", " ", "en">>, <<"z", "z">>>>}

Thresholds == {Frac(3, 10), Frac(3, 2)}

Profiles ==
    {Profile(ks, ex, th) : ks \in KeywordLists, ex \in ExcludeLists, th \in Thresholds}

\* the profile and the posting of test_no_match_different_keywords
FrontEndProfile == Profile(<<FrontEnd>>, <<>>, Frac(3, 10))

\* postings with the keyword in the title, in the detail, in neither, and
\* an excluded one
FilterPool ==
    {Posting(<<"t">>, <<"a">>, <<>>, S1), Posting(<<"en">>, <<"b">>, <<"t">>, S1),
     Posting(<<"T", "a">>, <<"c">>, <<>>, S1), Posting(<<"Z", "t">>, <<"d">>, <<>>, S1)}

ProbeOf(op, cfg, postings, text, keyword) ==
    [NoProbe EXCEPT !.op = op, !.cfg = cfg, !.jobs = postings, !.text = text,
                    !.keyword = keyword]

processVars == <<config, now, steps, pc, origin, cur_job, seen_jobs, history_file,
                 last_check_time, jobs, fetch_idx, all_jobs, unique_jobs,
                 new_jobs, notify_calls, cycles, restarts, run_cycles, fetch_log,
                 seen_at_start, returned_new, persisted, cycle_start,
                 prev_cycle_start, decision, saves, unnotified>>

\* the arguments of one call of calculate_similarity, match or filter_jobs
MatcherInit ==
    /\ config = TimesOnly
    /\ now = At(9, 0, 0)
    /\ Constructed
    /\ \/ \E text \in SeqsUpTo(SimilarityAlphabet, MaxTextLen),
              keyword \in SeqsUpTo(SimilarityAlphabet, MaxKeywordLen) :
              probe = ProbeOf("calculate_similarity", TimesOnly, <<>>, text, keyword)
       \/ probe = ProbeOf("calculate_similarity", TimesOnly, <<>>,
                          BackEndDeveloper, FrontEnd)
       \/ \E p \in Profiles, title \in SeqsUpTo(TitleAlphabet, MaxTitleLen),
              detail \in SeqsUpTo(TitleAlphabet, MaxTitleLen - 1) :
              probe = ProbeOf("match", p, <<Posting(title, <<"x">>, detail, S1)>>,
                              <<>>, <<>>)
       \/ probe = ProbeOf("match", FrontEndProfile,
                          <<Posting(BackEndDeveloper, <<"x">>, <<>>, S1)>>, <<>>, <<>>)
       \/ \E p \in Profiles, js \in SeqsUpTo(FilterPool, MaxJobs) :
              probe = ProbeOf("filter_jobs", p, js, <<>>, <<>>)

\* JobMatcher.calculate_similarity(text, keyword)
CalculateSimilarity ==
    /\ probe.op = "calculate_similarity"
    /\ ~probe.done
    /\ probe' = [probe EXCEPT !.done = TRUE,
                              !.score = calculate_similarity(probe.text, probe.keyword)]
    /\ UNCHANGED processVars

\* JobMatcher.match(job)
Match ==
    /\ probe.op = "match"
    /\ ~probe.done
    /\ probe' = [probe EXCEPT !.done = TRUE,
                              !.verdict = match(probe.cfg, probe.jobs[1])]
    /\ UNCHANGED processVars

\* JobMatcher.filter_jobs(jobs)
FilterJobs ==
    /\ probe.op = "filter_jobs"
    /\ ~probe.done
    /\ probe' = [probe EXCEPT !.done = TRUE,
                              !.out = filter_jobs(probe.cfg, probe.jobs)]
    /\ UNCHANGED processVars

MatcherNext ==
    \/ CalculateSimilarity
    \/ Match
    \/ FilterJobs

MatcherSpec == MatcherInit /\ [][MatcherNext]_vars

(***************************************************************************)
(* _filter_new_jobs called on its own (recruit/scheduler.py)               *)
(***************************************************************************)
\* postings a batch is made of: JobA again with another detail (the same
\* source, link and title), JobB whose link and title differ from JobA's,
\* JobC with JobB's link and another title, and JobD
HistoryPool ==
    {JobA(S1), [JobA(S1) EXCEPT !.detail = <<"t">>], JobB(S1), JobC(S1), JobD(S1)}

\* the postings earlier runs recorded in the history file
KnownSets == {{}, {JobA(S1)}, {JobB(S1)}, {JobC(S1), JobD(S1)}}

\* JobScheduler.__init__ of a process whose history file holds the
\* identifiers of the postings known, and the batch of one call
HistoryInit ==
    /\ config = TimesOnly
    /\ now = At(9, 0, 0)
    /\ steps = 0
    /\ pc = "init"
    /\ origin = "none"
    /\ cur_job = 0
    /\ \E known \in KnownSets :
          /\ history_file = IF known = {} THEN NoFile
                            ELSE Saved({_get_job_id(p) : p \in known}, <<>>)
          /\ seen_jobs = _load_history(history_file)
          /\ returned_new = {Identity(p) : p \in known}
          /\ persisted = {Identity(p) : p \in known}
    /\ last_check_time = -1
    /\ jobs = <<>>
    /\ fetch_idx = 0
    /\ all_jobs = <<>>
    /\ unique_jobs = <<>>
    /\ new_jobs = <<>>
    /\ notify_calls = <<>>
    /\ cycles = 0
    /\ restarts = 0
    /\ run_cycles = 0
    /\ fetch_log = <<>>
    /\ seen_at_start = {}
    /\ cycle_start = -1
    /\ prev_cycle_start = -1
    /\ decision = NoDecision
    /\ saves = <<>>
    /\ unnotified = {}
    /\ \E batch \in SeqsUpTo(HistoryPool, MaxJobs) :
          probe = ProbeOf("_filter_new_jobs", TimesOnly, batch, <<>>, <<>>)

\* JobScheduler._filter_new_jobs(jobs), with the _save_history it calls
FilterNewJobs ==
    /\ probe.op = "_filter_new_jobs"
    /\ ~probe.done
    /\ LET r == _filter_new_jobs(probe.jobs, seen_jobs)
           returned == returned_new \cup Identities(r.new_jobs)
       IN /\ probe' = [probe EXCEPT !.done = TRUE, !.out = r.new_jobs]
          /\ new_jobs' = r.new_jobs
          /\ seen_jobs' = r.seen
          /\ seen_at_start' = seen_jobs
          /\ unnotified' = unnotified \cup (r.seen \ seen_jobs)
          /\ IF SaveNeeded(r.new_jobs)
             THEN \E f \in SaveOutcomes(history_file, r.seen, r.new_jobs) :
                     /\ history_file' = f
                     /\ persisted' = IF f = Saved(r.seen, r.new_jobs) THEN returned
                                     ELSE IF f = Truncated THEN {}
                                     ELSE persisted
                     /\ saves' = Append(saves, SaveCall("_filter_new_jobs", r.seen, f))
             ELSE UNCHANGED <<history_file, persisted, saves>>
    /\ UNCHANGED <<config, now, steps, pc, origin, cur_job, last_check_time, jobs,
                   returned_new, fetch_idx, all_jobs, unique_jobs, notify_calls,
                   cycles, restarts, run_cycles, fetch_log, cycle_start,
                   prev_cycle_start, decision>>

HistoryNext == FilterNewJobs

HistorySpec == HistoryInit /\ [][HistoryNext]_vars

(***************************************************************************)
(* Properties                                                              *)
(***************************************************************************)
\* the cycle is past its fetch loops: the pool is complete
Pooled ==
    \/ pc = "fetching" /\ fetch_idx > Len(Pairs(config))
    \/ pc \in {"notify", "cycle_done"}

\* _filter_new_jobs has returned in the cycle
Filtered == pc \in {"notify", "cycle_done"}

\* the postings the fetches of the cycle returned, in fetch order
RECURSIVE FetchOrder(_)
FetchOrder(log) ==
    IF log = <<>> THEN <<>>
    ELSE (IF Head(log).outcome.raised THEN <<>> ELSE Head(log).outcome.jobs)
         \o FetchOrder(Tail(log))

\* C1: a posting that _filter_new_jobs returned as new in an earlier cycle,
\* of this process or of a process whose persisted history file this one
\* loaded, is not returned as new again: no posting just returned has the
\* source, link and title of one returned before.
ThmC1 ==
    Filtered => \A i \in 1..Len(new_jobs) : Identity(new_jobs[i]) \notin returned_new

\* C1 witness: after a restart the matcher lets through a posting whose
\* identity an earlier process returned and persisted, and it is held back.
WitC1 ==
    /\ pc = "cycle_done"
    /\ restarts > 0
    /\ \E i \in 1..Len(unique_jobs) :
        /\ match(config, unique_jobs[i])[1]
        /\ Identity(unique_jobs[i]) \in returned_new
        /\ \A k \in 1..Len(new_jobs) : Identity(new_jobs[k]) # Identity(unique_jobs[i])

\* start and end of the configured window as times of day
WindowStart == _parse_time(config.start_time).t

WindowEnd == _parse_time(config.end_time).t

\* C2: in window+interval mode every check cycle of the process starts
\* inside the window, and at least interval_minutes after the start of the
\* cycle before it (if there was one).
CexC2 ==
    (/\ ~HasTimes(config)
     /\ HasWindow(config)
     /\ cycle_start # -1)
    => /\ LET t == TimeOfDay(cycle_start)
          IN IF WindowStart <= WindowEnd
             THEN WindowStart <= t /\ t <= WindowEnd
             ELSE t >= WindowStart \/ t <= WindowEnd
       /\ \/ prev_cycle_start = -1
          \/ cycle_start - prev_cycle_start
                >= config.interval_minutes * SecondsPerMinute

\* C3: a fetch that raises stops nothing: the loop goes through the pairs
\* one by one whatever a fetch did, so once the pool is complete every
\* (site, keyword) pair has been fetched, and the pool holds every posting
\* the fetches that did not raise returned.
ThmC3 ==
    /\ pc = "fetching" => fetch_idx = Len(fetch_log) + 1
    /\ Pooled =>
        /\ Len(fetch_log) = Len(Pairs(config))
        /\ \A k \in 1..Len(fetch_log) : fetch_log[k].pair = Pairs(config)[k]
        /\ all_jobs = FetchOrder(fetch_log)

\* C3 witness: a fetch raised, a later pair was fetched all the same and a
\* posting it returned went through the cycle to notify.
WitC3 ==
    /\ pc = "cycle_done"
    /\ \E k \in 1..Len(fetch_log) :
        /\ fetch_log[k].outcome.raised
        /\ \E m \in (k + 1)..Len(fetch_log) :
            /\ ~fetch_log[m].outcome.raised
            /\ \E i \in 1..Len(fetch_log[m].outcome.jobs) :
                 \E c \in 1..Len(notify_calls) :
                    \E n \in 1..Len(notify_calls[c]) :
                        Identity(notify_calls[c][n])
                            = Identity(fetch_log[m].outcome.jobs[i])

\* a posting as the matcher hands it on: with its score and keyword
Scored(job) ==
    [job EXCEPT !.similarity = match(config, job)[2],
                !.matched_keyword = match(config, job)[3]]

\* the matched postings of the pool whose identity the history did not
\* hold when the cycle began
MatchedUnseen ==
    {Scored(unique_jobs[i]) : i \in
        {k \in 1..Len(unique_jobs) :
            /\ match(config, unique_jobs[k])[1]
            /\ _get_job_id(unique_jobs[k]) \notin seen_at_start}}

Descending(js) ==
    \A i \in 1..(Len(js) - 1) : ~FLess(js[i].similarity, js[i + 1].similarity)

\* C4: what a cycle hands to Notifier.notify is exactly the matched postings
\* of the de-duplicated pool whose identity was not in the history when the
\* cycle began, each once, by descending score.
CexC4 ==
    pc = "cycle_done" =>
        /\ MatchedUnseen # {} => Len(notify_calls) = 1
        /\ \A c \in 1..Len(notify_calls) :
            /\ SeqToSet(notify_calls[c]) = MatchedUnseen
            /\ Len(notify_calls[c]) = Cardinality(MatchedUnseen)
            /\ Descending(notify_calls[c])

\* the configured window runs over midnight
OvernightWindow ==
    /\ ~HasTimes(config)
    /\ HasWindow(config)
    /\ _parse_time(config.start_time).ok
    /\ _parse_time(config.end_time).ok
    /\ WindowStart > WindowEnd

\* C5: with start > end a time of day t is in the window iff t >= start or
\* t <= end, for the clock of every check and for the sample times; with
\* 22:00-06:00, 23:00 is in, 12:00 is out and 06:00 is in.
ThmC5 ==
    OvernightWindow =>
        /\ \A t \in {TimeOfDay(now), Clock(23, 0, 0), Clock(12, 0, 0),
                     Clock(6, 0, 0), Clock(6, 0, 1), Clock(21, 59, 59)} :
             _is_within_time_range(t, WindowStart, WindowEnd)
                <=> (t >= WindowStart \/ t <= WindowEnd)
        /\ decision.kind # "none" =>
             (decision.should = "yes"
                <=> \/ TimeOfDay(decision.at) >= WindowStart
                    \/ TimeOfDay(decision.at) <= WindowEnd)
        /\ (WindowStart = Clock(22, 0, 0) /\ WindowEnd = Clock(6, 0, 0)) =>
             /\ _is_within_time_range(Clock(23, 0, 0), WindowStart, WindowEnd)
             /\ ~_is_within_time_range(Clock(12, 0, 0), WindowStart, WindowEnd)
             /\ _is_within_time_range(Clock(6, 0, 0), WindowStart, WindowEnd)

\* C5 witness: with the window 22:00-06:00 a scheduled check fires at 06:00
\* sharp and finds itself in the window.
WitC5 ==
    /\ OvernightWindow
    /\ decision.kind = "trigger"
    /\ TimeOfDay(decision.at) = Clock(6, 0, 0)
    /\ decision.should = "yes"

\* C6: in explicit-times mode a trigger runs a check cycle iff the Seoul
\* time, cut to HH:MM, is one of the configured time strings.
CexC6 ==
    (HasTimes(config) /\ decision.kind = "trigger") =>
        (decision.ran <=> HHMM(decision.at) \in SeqToSet(config.schedule_times))

\* C7: with a times list configured, a window and an interval that are
\* configured too neither suppress a run at a listed time nor add one.
CexC7 ==
    (/\ HasTimes(config)
     /\ HasWindow(config)
     /\ decision.kind = "trigger") =>
        /\ decision.should = "yes" => decision.ran
        /\ decision.should = "no" => ~decision.ran

\* HH:MM: two digits, a colon, two digits, at most 23:59
WellFormedHHMM(time_str) ==
    /\ Len(time_str) = 5
    /\ time_str[3] = ":"
    /\ \A i \in {1, 2, 4, 5} : IsDigit(time_str[i])
    /\ IntOf(<<time_str[1], time_str[2]>>) <= 23
    /\ IntOf(<<time_str[4], time_str[5]>>) <= 59

MalformedSchedule ==
    \/ \E i \in 1..Len(config.schedule_times) :
            ~WellFormedHHMM(config.schedule_times[i])
    \/ config.start_time # <<>> /\ ~WellFormedHHMM(config.start_time)
    \/ config.end_time # <<>> /\ ~WellFormedHHMM(config.end_time)

\* C8: with a malformed HH:MM string in the schedule the process fails
\* before any work: it never begins a check cycle and never enters the loop.
CexC8 == MalformedSchedule => run_cycles = 0 /\ pc # "loop"

\* C9: of the pooled postings that share a non-empty link exactly one is
\* left after the same-link pass, the earliest of them in fetch order.
ThmC9 ==
    Filtered =>
        \A i \in 1..Len(FetchOrder(fetch_log)) :
            LET order == FetchOrder(fetch_log)
                first == CHOOSE k \in 1..i :
                            /\ order[k].link = order[i].link
                            /\ \A m \in 1..(k - 1) : order[m].link # order[i].link
                left == {u \in 1..Len(unique_jobs) :
                            unique_jobs[u].link = order[i].link}
            IN order[i].link # <<>> =>
                /\ Cardinality(left) = 1
                /\ \A u \in left : unique_jobs[u] = order[first]

\* C9 witness: two different postings with the same link are in the pool.
WitC9 ==
    /\ Filtered
    /\ \E i, k \in 1..Len(all_jobs) :
        /\ i < k
        /\ all_jobs[i].link # <<>>
        /\ all_jobs[i].link = all_jobs[k].link
        /\ all_jobs[i] # all_jobs[k]
        /\ \E u \in 1..Len(unique_jobs) : unique_jobs[u] = all_jobs[i]

\* C10: every pooled posting with an empty link is left after the
\* same-link pass and so reaches the matcher.
CexC10 ==
    Filtered =>
        \A i \in 1..Len(all_jobs) :
            all_jobs[i].link = <<>> =>
                \E u \in 1..Len(unique_jobs) : unique_jobs[u] = all_jobs[i]

\* C11: Notifier.notify is called at most once in a check cycle, with the
\* cycle's result, and by the end of the cycle it has been called iff that
\* result is not empty
ThmC11 ==
    /\ Len(notify_calls) <= 1
    /\ \A i \in 1..Len(notify_calls) :
           notify_calls[i] = new_jobs /\ new_jobs # <<>>
    /\ pc = "cycle_done" => (Len(notify_calls) = 1 <=> new_jobs # <<>>)

\* a cycle ended with a result and one call of notify
WitC11 == pc = "cycle_done" /\ new_jobs # <<>> /\ notify_calls = <<new_jobs>>

\* C18: within one process run seen_jobs never loses an identity: every step
\* other than a restart of the program leaves it a superset of what it was
ThmC18 == [][restarts' = restarts => seen_jobs \subseteq seen_jobs']_vars

\* a cycle that began with a non-empty set has added to it
WitC18 ==
    /\ Filtered
    /\ seen_at_start # {}
    /\ seen_at_start \subseteq seen_jobs
    /\ seen_jobs # seen_at_start

\* C19: once _filter_new_jobs has returned, the cycle has called
\* _save_history iff the cycle added an identity, at most once, with the whole
\* in-memory set; after a write that went through the file holds that set
ThmC19 ==
    Filtered =>
        /\ Len(saves) <= 1
        /\ Len(saves) = 1 <=> seen_jobs # seen_at_start
        /\ \A i \in 1..Len(saves) :
               /\ saves[i].by = "check_jobs"
               /\ saves[i].seen_job_ids = seen_jobs
               /\ saves[i].written => /\ history_file.exists
                                      /\ history_file.readable
                                      /\ history_file.seen_job_ids = seen_jobs

\* a cycle added to a non-empty history and its write went through
WitC19 ==
    /\ Filtered
    /\ seen_at_start # {}
    /\ Len(saves) = 1
    /\ saves[1].written

\* the process was stopped after _schedule_jobs had registered its jobs,
\* that is, from inside the tick loop
StoppedInLoop == pc = "stopped" /\ jobs # <<>>

\* C20: an interrupt that arrives in the tick loop, a triggered cycle
\* included, stops the process after one _save_history call with the whole
\* in-memory set; unless that write fails the file then holds the set
ThmC20 ==
    StoppedInLoop =>
        /\ Len(saves) = 1
        /\ saves[1].by = "finally"
        /\ saves[1].seen_job_ids = seen_jobs
        /\ saves[1].written => _load_history(history_file) = seen_jobs

\* the interrupt arrived inside a triggered cycle that had found something
\* new, and the write of the finally clause went through
WitC20 ==
    /\ StoppedInLoop
    /\ run_cycles > 0
    /\ seen_jobs # {}
    /\ Len(saves) = 1
    /\ saves[1].written
    /\ decision.kind = "trigger"
    /\ decision.ran

(***************************************************************************)
(* Properties of the matcher                                               *)
(***************************************************************************)
\* two similarities are the same number
SameValue(x, y) == x.n * y.d = y.n * x.d

\* the call looked at has returned
Done(op) == probe.op = op /\ probe.done

\* the posting given to match
Probed == probe.jobs[1]

\* title + " " + detail in lower case
FullText(job) == Lower(job.title \o <<" ">> \o job.detail)

\* the text of the posting holds an exclude keyword, case aside
Excluded(cfg, job) ==
    \E i \in 1..Len(cfg.exclude_keywords) :
        Contains(FullText(job), Lower(cfg.exclude_keywords[i]))

\* an include keyword occurs in the title, case aside
KeywordInTitle(cfg, job) ==
    \E i \in 1..Len(cfg.job_keywords) :
        /\ cfg.job_keywords[i] # <<>>
        /\ Contains(Lower(job.title), Lower(cfg.job_keywords[i]))

\* C12: a posting whose lower-cased title + " " + detail holds an exclude
\* keyword gets (False, 0.0, "") from match, however well an include keyword
\* scores, and filter_jobs returns no such posting
ThmC12 ==
    /\ Done("match") /\ Excluded(probe.cfg, Probed)
           => probe.verdict = <<FALSE, Zero, <<>>>>
    /\ Done("filter_jobs") =>
           \A i \in 1..Len(probe.jobs) :
               Excluded(probe.cfg, probe.jobs[i]) =>
                   \A k \in 1..Len(probe.out) : probe.out[k].link # probe.jobs[i].link

\* match has returned for a posting that holds an exclude keyword in another
\* case than configured and an include keyword in its title
WitC12 ==
    /\ Done("match")
    /\ Excluded(probe.cfg, Probed)
    /\ ~should_excludeCased(probe.cfg, Probed.title \o <<" ">> \o Probed.detail)
    /\ KeywordInTitle(probe.cfg, Probed)

\* the matched postings of the list given to filter_jobs, in the order
\* given, each with its score and keyword
MatchedInputs ==
    SelectSeq([i \in 1..Len(probe.jobs) |->
                  [probe.jobs[i] EXCEPT
                      !.similarity = match(probe.cfg, probe.jobs[i])[2],
                      !.matched_keyword = match(probe.cfg, probe.jobs[i])[3]]],
              LAMBDA j : match(probe.cfg, j)[1])

\* the postings of a list that have a given similarity, in their order
WithScore(js, v) == SelectSeq(js, LAMBDA j : SameValue(j.similarity, v))

\* C13: what filter_jobs returns is ordered by non-increasing similarity,
\* holds exactly the matched postings of its input, each with similarity and
\* matched_keyword, and keeps postings of equal similarity in input order
ThmC13 ==
    Done("filter_jobs") =>
        /\ Len(probe.out) = Len(MatchedInputs)
        /\ Descending(probe.out)
        /\ \A i \in 1..Len(probe.out) :
               WithScore(probe.out, probe.out[i].similarity)
                   = WithScore(MatchedInputs, probe.out[i].similarity)

\* filter_jobs has reordered three matched postings, two of them different
\* postings with the same similarity
WitC13 ==
    /\ Done("filter_jobs")
    /\ Len(probe.out) = 3
    /\ probe.out # MatchedInputs
    /\ \E i \in 1..2 :
           /\ SameValue(probe.out[i].similarity, probe.out[i + 1].similarity)
           /\ probe.out[i].link # probe.out[i + 1].link

\* max(1.5 * score(title, keyword), score(detail, keyword))
Candidate(job, keyword) ==
    FMax(FMul(calculate_similarity(job.title, keyword), Frac(3, 2)),
         calculate_similarity(job.detail, keyword))

\* the largest candidate over the include keywords, 0 when there is none
BestScore(cfg, job) ==
    LET cands == {Candidate(job, MatcherKeywords(cfg)[k]) :
                     k \in 1..Len(cfg.job_keywords)} \cup {Zero}
    IN CHOOSE c \in cands : \A d \in cands : FLeq(d, c)

\* C14 as stated: for a posting that is not excluded and a profile with
\* include keywords, match returns the largest candidate score, a keyword
\* that attains it, and matched iff that score is at least the threshold
CexC14 ==
    Done("match") /\ ~Excluded(probe.cfg, Probed) /\ probe.cfg.job_keywords # <<>> =>
        /\ SameValue(probe.verdict[2], BestScore(probe.cfg, Probed))
        /\ probe.verdict[1]
               <=> FLeq(probe.cfg.similarity_threshold, BestScore(probe.cfg, Probed))
        /\ \E k \in 1..Len(probe.cfg.job_keywords) :
               /\ MatcherKeywords(probe.cfg)[k] = probe.verdict[3]
               /\ SameValue(Candidate(Probed, probe.verdict[3]),
                            BestScore(probe.cfg, Probed))

\* C14, amended: for a posting that is not excluded match returns the largest
\* candidate score (0 without keywords) and matched iff it is at least the
\* threshold; the keyword is the first one that attains the score when the
\* score is positive, and "" when it is 0
ThmC14 ==
    Done("match") /\ ~Excluded(probe.cfg, Probed) =>
        /\ SameValue(probe.verdict[2], BestScore(probe.cfg, Probed))
        /\ probe.verdict[1]
               <=> FLeq(probe.cfg.similarity_threshold, BestScore(probe.cfg, Probed))
        /\ IF FLess(Zero, BestScore(probe.cfg, Probed))
           THEN \E k \in 1..Len(probe.cfg.job_keywords) :
                   /\ MatcherKeywords(probe.cfg)[k] = probe.verdict[3]
                   /\ SameValue(Candidate(Probed, MatcherKeywords(probe.cfg)[k]),
                                BestScore(probe.cfg, Probed))
                   /\ \A m \in 1..(k - 1) :
                          FLess(Candidate(Probed, MatcherKeywords(probe.cfg)[m]),
                                BestScore(probe.cfg, Probed))
           ELSE probe.verdict[3] = <<>>

\* match has returned the second keyword, the first having a positive but
\* smaller candidate score
WitC14 ==
    /\ Done("match")
    /\ ~Excluded(probe.cfg, Probed)
    /\ Len(probe.cfg.job_keywords) >= 2
    /\ probe.verdict[3] = MatcherKeywords(probe.cfg)[2]
    /\ FLess(Zero, Candidate(Probed, MatcherKeywords(probe.cfg)[1]))
    /\ FLess(Candidate(Probed, MatcherKeywords(probe.cfg)[1]), probe.verdict[2])

\* C15 as stated: the similarity filter_jobs attaches to a posting lies in
\* the closed range from 0 to 1
CexC15 ==
    Done("filter_jobs") =>
        \A i \in 1..Len(probe.out) :
            FLeq(Zero, probe.out[i].similarity) /\ FLeq(probe.out[i].similarity, One)

\* C15, amended: calculate_similarity returns a value from 0 to 1, and the
\* similarity match returns and filter_jobs attaches lies from 0 to 1.5
ThmC15 ==
    /\ Done("calculate_similarity") => FLeq(Zero, probe.score) /\ FLeq(probe.score, One)
    /\ Done("match") =>
           FLeq(Zero, probe.verdict[2]) /\ FLeq(probe.verdict[2], Frac(3, 2))
    /\ Done("filter_jobs") =>
           \A i \in 1..Len(probe.out) :
               /\ FLeq(Zero, probe.out[i].similarity)
               /\ FLeq(probe.out[i].similarity, Frac(3, 2))

\* filter_jobs has returned a posting with similarity 1.5
WitC15 ==
    /\ Done("filter_jobs")
    /\ \E i \in 1..Len(probe.out) : SameValue(probe.out[i].similarity, Frac(3, 2))

\* C16: when the lower-cased keyword is a substring of the lower-cased text
\* calculate_similarity returns exactly 1.0
ThmC16 ==
    Done("calculate_similarity")
        /\ Contains(Lower(probe.text), Lower(probe.keyword))
    => probe.score = One

\* calculate_similarity has returned for a keyword that is a proper part of
\* the text in another case
WitC16 ==
    /\ Done("calculate_similarity")
    /\ probe.keyword # <<>>
    /\ Len(probe.keyword) < Len(probe.text)
    /\ Contains(Lower(probe.text), Lower(probe.keyword))
    /\ ~Contains(probe.text, probe.keyword)

\* the whitespace tokens of the lower-cased keyword
Tokens(keyword) == Words(Lower(keyword))

\* no token of the keyword occurs in the text
NoTokenIn(text, keyword) ==
    \A i \in 1..Len(Tokens(keyword)) : ~Contains(Lower(text), Tokens(keyword)[i])

\* no token of the keyword occurs in the text with its blanks removed
NoTokenInStripped(text, keyword) ==
    \A i \in 1..Len(Tokens(keyword)) :
        ~Contains(NoSpaces(Lower(text)), Tokens(keyword)[i])

\* every include keyword is Hangul and has no token in the title or detail
AllForeign(cfg, job) ==
    \A k \in 1..Len(cfg.job_keywords) :
        /\ _is_korean(MatcherKeywords(cfg)[k])
        /\ NoTokenIn(job.title, cfg.job_keywords[k])
        /\ NoTokenIn(job.detail, cfg.job_keywords[k])

\* C17 as stated: for a Hangul keyword no token of which occurs in the text
\* calculate_similarity returns less than 0.5, and a match reported on such
\* keywords has a score below 0.5
CexC17 ==
    /\ Done("calculate_similarity") /\ _is_korean(Lower(probe.keyword))
           /\ NoTokenIn(probe.text, probe.keyword)
       => FLess(probe.score, Frac(1, 2))
    /\ Done("match") /\ AllForeign(probe.cfg, Probed) /\ probe.verdict[1]
       => FLess(probe.verdict[2], Frac(1, 2))

\* C17, amended: for a Hangul keyword no token of which occurs in the text,
\* blanks removed or not, calculate_similarity returns the sequence ratio r
\* of the two when r >= 0.6 and 0.3 * r, which is below 0.18, when r < 0.6;
\* for the keyword and title of test_no_match_different_keywords it returns
\* 0.1 and match reports no match, with score 0.15
ThmC17 ==
    /\ Done("calculate_similarity") /\ _is_korean(Lower(probe.keyword))
           /\ NoTokenInStripped(probe.text, probe.keyword)
       => IF FLess(Ratio(Lower(probe.text), Lower(probe.keyword)), Frac(6, 10))
          THEN /\ SameValue(probe.score,
                            FMul(Ratio(Lower(probe.text), Lower(probe.keyword)),
                                 Frac(3, 10)))
               /\ FLess(probe.score, Frac(18, 100))
          ELSE SameValue(probe.score, Ratio(Lower(probe.text), Lower(probe.keyword)))
    /\ Done("calculate_similarity") /\ probe.text = BackEndDeveloper
           /\ probe.keyword = FrontEnd
       => SameValue(probe.score, Frac(1, 10))
    /\ Done("match") /\ Probed.title = BackEndDeveloper
           /\ probe.cfg = FrontEndProfile
       => ~probe.verdict[1] /\ SameValue(probe.verdict[2], Frac(15, 100))

\* calculate_similarity has returned a reduced, positive value for a Hangul
\* keyword that shares syllables but no token with the text
WitC17 ==
    /\ Done("calculate_similarity")
    /\ _is_korean(Lower(probe.keyword))
    /\ NoTokenInStripped(probe.text, probe.keyword)
    /\ FLess(Zero, probe.score)
    /\ FLess(probe.score, Ratio(Lower(probe.text), Lower(probe.keyword)))

(***************************************************************************)
(* Properties of error handling, the window and the callbacks              *)
(***************************************************************************)
\* the _save_history call of the cycle did not leave the whole set on disk
WriteFailed == Filtered /\ Len(saves) = 1 /\ ~saves[1].written

\* C21: history I/O failures are never fatal. After a failed write in a
\* cycle the in-memory set still holds what it held plus the identifiers of
\* the new postings, and the cycle ends with those postings passed to notify;
\* the process fails only on a malformed schedule; and a process started over
\* an unreadable file, or whose read fails, begins with an empty history.
ThmC21 ==
    /\ WriteFailed =>
        /\ new_jobs # <<>>
        /\ seen_jobs = seen_at_start
                         \cup {_get_job_id(new_jobs[i]) : i \in 1..Len(new_jobs)}
        /\ pc = "cycle_done" => notify_calls = <<new_jobs>>
    /\ pc = "failed" => MalformedSchedule
    /\ (pc = "init" /\ restarts > 0) =>
        /\ seen_jobs \in {_load_history(history_file), {}}
        /\ ~(history_file.exists /\ history_file.readable) => seen_jobs = {}

\* C21 witness: the write of the first cycle failed and left a truncated
\* file; the same process ran a second cycle, which found the postings in the
\* in-memory set and so had nothing new.
WitC21 ==
    /\ restarts = 0
    /\ run_cycles = 2
    /\ pc = "cycle_done"
    /\ history_file = Truncated
    /\ seen_jobs # {}
    /\ seen_at_start = seen_jobs
    /\ unique_jobs # <<>>
    /\ new_jobs = <<>>

\* the configured window lies within one day
SameDayWindow ==
    /\ ~HasTimes(config)
    /\ HasWindow(config)
    /\ _parse_time(config.start_time).ok
    /\ _parse_time(config.end_time).ok
    /\ WindowStart <= WindowEnd

\* C22 as stated: with start <= end every evaluation of _should_check_now
\* says yes iff start <= t < end for the time of day t it was made at.
CexC22 ==
    (SameDayWindow /\ decision.kind # "none") =>
        (decision.should = "yes"
            <=> /\ WindowStart <= TimeOfDay(decision.at)
                /\ TimeOfDay(decision.at) < WindowEnd)

\* C22: the window is closed at both ends: with start <= end a time of day t
\* is eligible iff start <= t <= end, for the sample times round both ends
\* and for every evaluation of _should_check_now; the end itself is eligible.
ThmC22 ==
    SameDayWindow =>
        /\ \A t \in {TimeOfDay(now), WindowStart, WindowStart - 1, WindowEnd - 1,
                     WindowEnd, WindowEnd + 1} :
             _is_within_time_range(t, WindowStart, WindowEnd)
                <=> (WindowStart <= t /\ t <= WindowEnd)
        /\ _is_within_time_range(WindowEnd, WindowStart, WindowEnd)
        /\ decision.kind # "none" =>
             (decision.should = "yes"
                <=> /\ WindowStart <= TimeOfDay(decision.at)
                    /\ TimeOfDay(decision.at) <= WindowEnd)

\* C22 witness: with the window 09:00-18:00 a scheduled check fires at 18:00
\* sharp, finds itself in the window and runs a cycle.
WitC22 ==
    /\ SameDayWindow
    /\ decision.kind = "trigger"
    /\ TimeOfDay(decision.at) = WindowEnd
    /\ decision.should = "yes"
    /\ decision.ran

\* the delay the throttle is to put between two fetches, in seconds
PolitenessDelay == 1

\* C23 as stated: in a cycle every fetch that another fetch follows was
\* followed by the delay, whether it returned or raised.
CexC23 ==
    \A i \in 1..(Len(fetch_log) - 1) : fetch_log[i].slept = PolitenessDelay

\* C24 as stated, at the point it names: an interrupt takes effect only in
\* the idle loop or between two fetches, so a cycle in which _filter_new_jobs
\* has recorded the new identifiers is not ended before its notify call.
CexC24 == [][(pc = "notify" /\ new_jobs # <<>>) => pc' # "stopped"]_vars

\* a job registered with _check_jobs_with_time_validation is the next to
\* run, at a moment when _should_check_now is false
FiresOutside ==
    /\ pc = "loop"
    /\ Due(jobs, HostTime(config, now)) # {}
    /\ jobs[FirstDue(jobs, HostTime(config, now))].func = "validated"
    /\ _should_check_now(config, now) = "no"

\* C25: a scheduled callback that fires while _should_check_now is false does
\* nothing: the process stays in the loop (no error), no cycle and no fetch is
\* begun, the in-memory history, the file and the last-check time keep their
\* values and notify is not called; the step only gives the job its next run.
\* (The one other step such a state has is the interrupt, which stops the
\* process.)
ThmC25 ==
    [][(FiresOutside /\ pc' # "stopped") =>
          /\ pc' = "loop"
          /\ decision' = Decided("trigger", now, "no", FALSE)
          /\ UNCHANGED <<seen_jobs, history_file, persisted, last_check_time,
                         notify_calls, fetch_idx, fetch_log, all_jobs, new_jobs,
                         cycles, run_cycles, cycle_start, unnotified, saves>>]_vars

\* C25 witness: after a triggered cycle at the end of the window had set the
\* last-check time and recorded postings, the callback fired one minute later,
\* outside the window, and returned at once.
WitC25 ==
    /\ pc = "loop"
    /\ decision = Decided("trigger", now, "no", FALSE)
    /\ last_check_time # -1
    /\ last_check_time < now
    /\ seen_jobs # {}

\* C26 as stated: the last-check time is set only by a cycle that ran to
\* completion, so while a triggered cycle is still fetching or has yet to
\* notify, the recorded time is not yet that of this cycle.
CexC26 ==
    (/\ ~HasTimes(config)
     /\ HasWindow(config)
     /\ origin = "job"
     /\ pc \in {"fetching", "notify"})
        => last_check_time # cycle_start

\* C28 as stated: in explicit-times mode, whatever the host's clock, the
\* trigger registered for a listed time is next due at that time of day on the
\* Asia/Seoul clock, and a trigger that fires finds its time listed.
CexC28 ==
    (HasTimes(config) /\ pc = "loop") =>
        /\ \A i \in 1..Len(jobs) :
               HHMM(jobs[i].next_run - config.host_offset) = config.schedule_times[i]
        /\ decision.kind = "trigger" => decision.should = "yes"

\* C29 as stated, for the process once it has stopped: no identifier in the
\* history file is one that this process run recorded for a posting it never
\* passed to Notifier.notify.
CexC29 == pc = "stopped" => unnotified \cap _load_history(history_file) = {}

(***************************************************************************)
(* Properties of _filter_new_jobs and _get_job_id                          *)
(***************************************************************************)
\* the batch given to _filter_new_jobs
Batch == probe.jobs

\* posting i is the first of the batch with its source, link and title
FirstOfItsIdentity(i) == \A j \in 1..(i - 1) : Identity(Batch[j]) # Identity(Batch[i])

\* positions of the batch with the source, link and title of posting i
SameIdentity(i) == {j \in 1..Len(Batch) : Identity(Batch[j]) = Identity(Batch[i])}

\* positions of the result that hold posting number i of the batch
ReturnedAt(i) == {k \in 1..Len(probe.out) : probe.out[k] = Batch[i]}

\* C27 as stated: when a batch holds two or more postings with one source,
\* link and title that the history did not know, the call returns the first
\* of them and none of the others, and the set holds their identifier.
CexC27 ==
    Done("_filter_new_jobs") =>
        \A i \in 1..Len(Batch) :
            (/\ FirstOfItsIdentity(i)
             /\ Cardinality(SameIdentity(i)) >= 2
             /\ Identity(Batch[i]) \notin returned_new)
            => /\ ReturnedAt(i) # {}
               /\ Cardinality({k \in 1..Len(probe.out) :
                                  Identity(probe.out[k]) = Identity(Batch[i])}) = 1
               /\ _get_job_id(Batch[i]) \in seen_jobs

\* C30 as stated: postings that differ in source, link or title get
\* different identifiers, and a call returns every posting of the batch whose
\* source, link and title neither the history nor an earlier posting of the
\* batch has.
CexC30 ==
    Done("_filter_new_jobs") =>
        /\ \A i \in 1..Len(Batch), j \in 1..Len(Batch) :
               Identity(Batch[i]) # Identity(Batch[j])
                   => _get_job_id(Batch[i]) # _get_job_id(Batch[j])
        /\ \A i \in 1..Len(Batch) :
               (FirstOfItsIdentity(i) /\ Identity(Batch[i]) \notin returned_new)
                   => ReturnedAt(i) # {}

====
